---- MODULE Spec2Model ----
(***************************************************************************)
(* A model of the vocabulary-expansion and sequence-evaluation core of     *)
(* run_translation.py.                                                     *)
(*                                                                         *)
(* Six specifications share the variables of this module:                  *)
(*   Spec       main(), lines 401-483: the vocabulary expansion            *)
(*   SpecScore  sequence_accuracy() as compute_metrics() and the predict   *)
(*              loop call it (lines 666-694, 779-792)                      *)
(*   SpecAgg    the by-condition aggregation of the predict loop           *)
(*              (lines 794-834)                                            *)
(*   SpecIgnore the two callers on labels that hold the ignore id -100     *)
(*   SpecPredict the predict loop and the files it writes (lines 761-849)  *)
(*   SpecRun    main() from the expansion to the end of the predict loop   *)
(* Arrays are sequences of rows; a row is a sequence of token ids.         *)
(* A quotient of two integer counts is kept as the pair [num, den], so     *)
(* that 0/0 (numpy's nan) stays visible.                                   *)
(***************************************************************************)
EXTENDS Integers, Sequences, FiniteSets, TLC

VARIABLES
    pc,                         \* position in main()
    \* ---- scoring (SpecScore)
    pad_token_id,               \* tokenizer.pad_token_id
    ignore_pad_token_for_loss,  \* data_args.ignore_pad_token_for_loss
    caller,                     \* "compute_metrics" or "predict"
    raw_predictions,            \* eval_preds[0] / test_results.predictions
    raw_labels,                 \* eval_preds[1] / test_results.label_ids
    accuracy_per_sequence,      \* what sequence_accuracy returned or raised
    exact_matches,              \* accuracy_per_sequence == 1.
    \* ---- aggregation (SpecAgg)
    benchmark,                  \* data_args.benchmark
    test_dataset_name,
    condition_list,             \* json.load(gen_conditions_file)
    report,                     \* what was json.dump-ed, or the error raised
    test_datasets_d,            \* the names of the test datasets, in loop order
    files,                      \* what the predict loop has written, by file name
    \* ---- vocabulary expansion (Spec)
    model_name,                 \* model_args.model_name_or_path
    add_new_vocab,              \* TRUE when model_args.add_new_vocab is not None
    vocab_init_method,
    prepend_space_to_vocab,
    vocab_file,                 \* the lines of add_new_vocab, newline included
    new_vocabs,
    tokenizer,                  \* the vocabulary: token at position id + 1
    base_size,                  \* len(tokenizer) before any token was added
    emb,                        \* the input embedding matrix, one value per row
    emb0,                       \* the matrix as loaded, before the expansion
    old_rows,                   \* row indices (0-based) old_emb was cut from
    rand_indices,               \* the draw of np.random.choice
    error                       \* the exception main() ended with, or "none"

vars == <<pc, pad_token_id, ignore_pad_token_for_loss, caller, raw_predictions, raw_labels,
          accuracy_per_sequence, exact_matches,
          benchmark, test_dataset_name, condition_list, report, test_datasets_d, files,
          model_name, add_new_vocab, vocab_init_method, prepend_space_to_vocab, vocab_file,
          new_vocabs, tokenizer, base_size, emb, emb0, old_rows, rand_indices,
          error>>

scoreVars == <<pad_token_id, ignore_pad_token_for_loss, caller, raw_predictions, raw_labels,
               accuracy_per_sequence, exact_matches>>
aggVars   == <<benchmark, test_dataset_name, condition_list, report,
               test_datasets_d, files>>
vocabVars == <<model_name, add_new_vocab, vocab_init_method, prepend_space_to_vocab,
               vocab_file, new_vocabs, tokenizer, base_size, emb, emb0,
               old_rows, rand_indices, error>>

----------------------------------------------------------------------------
(* Bounds of the model *)

MaxCells == 3        \* an array holds at most MaxCells token ids

TokenIds == {0, 1, 2}            \* token ids of the arrays
PadIds == {0, 1}                 \* T5 pads with 0, BART and LED with 1

\* the (batch, width) shapes of at most MaxCells cells, and the arrays of
\* these shapes
Shapes == {s \in (1..MaxCells) \X (0..MaxCells) : s[1] * s[2] <= MaxCells}
Arrays == UNION {[1..s[1] -> [1..s[2] -> TokenIds]] : s \in Shapes}
\* a label array has a column at least (every target ends with its
\* end-of-sequence token); the generated ids behind the start column may be
\* none
LabelArrays == {a \in Arrays : Len(a[1]) >= 1}

----------------------------------------------------------------------------
(* numpy on 2-d and 1-d integer arrays *)

RECURSIVE SumSeq(_)
SumSeq(s) == IF s = <<>> THEN 0 ELSE Head(s) + SumSeq(Tail(s))

Max(a, b) == IF a >= b THEN a ELSE b

\* the sequence f, with its elements evaluated once
Tuple(f) == <<>> \o f

\* ndarray.shape of a 2-d array (a batch always has a first row here)
Shape(a) == <<Len(a), Len(a[1])>>

\* np.pad(a, ((0, 0), (0, k))): k zeros appended to every row
NpPad(a, k) == Tuple([i \in 1..Len(a) |-> a[i] \o [j \in 1..k |-> 0]])

\* numpy's broadcasting of one dimension: equal, or one of them 1; else -1
BDim(x, y) == IF x = y THEN x ELSE IF x = 1 THEN y ELSE IF y = 1 THEN x ELSE -1
BIdx(d, i) == IF d = 1 THEN 1 ELSE i

Broadcastable2(a, b) ==
    /\ BDim(Shape(a)[1], Shape(b)[1]) >= 0
    /\ BDim(Shape(a)[2], Shape(b)[2]) >= 0

\* a == b of two broadcastable 2-d arrays, as 0 and 1
NpEqual(a, b) ==
    Tuple([i \in 1..BDim(Shape(a)[1], Shape(b)[1]) |->
        Tuple([j \in 1..BDim(Shape(a)[2], Shape(b)[2]) |->
            IF a[BIdx(Shape(a)[1], i)][BIdx(Shape(a)[2], j)]
                 = b[BIdx(Shape(b)[1], i)][BIdx(Shape(b)[2], j)]
            THEN 1 ELSE 0])])

\* a * b of two broadcastable 2-d arrays
NpTimes(a, b) ==
    Tuple([i \in 1..BDim(Shape(a)[1], Shape(b)[1]) |->
        Tuple([j \in 1..BDim(Shape(a)[2], Shape(b)[2]) |->
            a[BIdx(Shape(a)[1], i)][BIdx(Shape(a)[2], j)]
              * b[BIdx(Shape(b)[1], i)][BIdx(Shape(b)[2], j)]])])

\* a.sum(axis=1)
SumAxis1(a) == Tuple([i \in 1..Len(a) |-> SumSeq(a[i])])

\* x / y of two 1-d integer arrays, each quotient kept as [num, den]
Quotients(x, y) ==
    Tuple([i \in 1..BDim(Len(x), Len(y)) |->
        [num |-> x[BIdx(Len(x), i)], den |-> y[BIdx(Len(y), i)]]])

\* q == 1. for a quotient of integers: nan (0/0) and inf (n/0) are not 1
IsOne(q) == q.den # 0 /\ q.num = q.den

\* the labels left as they are
ReplaceNothing(labels, pad) == labels

\* np.where(labels != -100, labels, pad)
ReplaceIgnore(labels, pad) ==
    Tuple([i \in 1..Len(labels) |->
        Tuple([j \in 1..Len(labels[i]) |->
            IF labels[i][j] # -100 THEN labels[i][j] ELSE pad])])

\* preds[:, 1:]
StripSOS(preds) == Tuple([i \in 1..Len(preds) |-> Tail(preds[i])])

----------------------------------------------------------------------------
(* sequence_accuracy, lines 666-681 *)

Raised(what) == [status |-> what, value |-> <<>>]
Returned(v) == [status |-> "ok", value |-> v]

\* the check of line 671 left out
BatchSizesUnchecked(batch_size_preds, batch_size_labels) == TRUE

\* line 671: assert batch_size_labels == batch_size_preds
BatchSizesAgree(batch_size_preds, batch_size_labels) ==
    batch_size_labels = batch_size_preds

\* a mask that counts the padding positions too
InputMaskAllOnes(labels, pad) ==
    Tuple([i \in 1..Len(labels) |->
        Tuple([j \in 1..Len(labels[i]) |-> 1])])

\* line 676: the mask is taken from the labels as passed in (before line 677
\* pads them)
InputMask(labels, pad) ==
    Tuple([i \in 1..Len(labels) |->
        Tuple([j \in 1..Len(labels[i]) |-> IF labels[i][j] # pad THEN 1 ELSE 0])])

sequence_accuracy(predictions, labels, pad) ==
    LET batch_size_preds == Shape(predictions)[1]
        max_length_preds == Shape(predictions)[2]
        batch_size_labels == Shape(labels)[1]
        max_length_labels == Shape(labels)[2]
        max_length == Max(max_length_preds, max_length_labels)
        predictionsP == NpPad(predictions, max_length - max_length_preds)
        input_mask == InputMask(labels, pad)
        labelsP == NpPad(labels, max_length - max_length_labels)
        equal == NpEqual(predictionsP, labelsP)
        masked == NpTimes(equal, input_mask)
        correct_predictions == SumAxis1(masked)
        length_per_example == SumAxis1(input_mask)
    IN  IF ~BatchSizesAgree(batch_size_preds, batch_size_labels)
            THEN Raised("AssertionError")
        ELSE IF ~Broadcastable2(predictionsP, labelsP)
            THEN Raised("ValueError")
        ELSE IF ~Broadcastable2(equal, input_mask)
            THEN Raised("ValueError")
        ELSE IF BDim(Len(correct_predictions), Len(length_per_example)) < 0
            THEN Raised("ValueError")
        ELSE Returned(Quotients(correct_predictions, length_per_example))

\* lines 693 and 792: exact_matches = (accuracy_per_sequence == 1.)
ExactMatches(acc) ==
    IF acc.status = "ok"
        THEN Tuple([i \in 1..Len(acc.value) |-> IsOne(acc.value[i])])
        ELSE <<>>

----------------------------------------------------------------------------
(* The vocabulary expansion of main(), lines 401-483 *)

\* lines 54-55.  The sizes are scaled down (50265 in the source) so that
\* tokenizers smaller than, as large as and larger than the constant fit
\* the bounds; only the order of the sizes enters the code.
_BART_EMB_SIZE == 3
_LED_EMB_SIZE == 3

MaxLines == 2        \* lines of the vocabulary file
MaxBase == 4         \* tokens of the tokenizer as loaded
MaxSpare == 1        \* rows of the loaded matrix beyond the tokenizer's ids

ModelNames == {"t5-base", "facebook/bart-base", "allenai/led-base-16384", "gpt2"}
\* 't5' in name, 'bart' in name, 'allenai/led' in name
HasT5(name) == name = "t5-base"
HasBart(name) == name = "facebook/bart-base"
HasLed(name) == name = "allenai/led-base-16384"

InitMethods == {"default", "avg", "existing_word", "random"}

\* a line of the file is a sequence of characters; every line but the last
\* ends with a newline
Words == {<<"x">>, <<"y">>, <<>>}
FullLines == {w \o <<"\n">> : w \in Words}
LastLines == FullLines \cup {<<"x">>, <<"y">>}
VocabFiles ==
    UNION {{f \in [1..n -> LastLines] : \A k \in 1..(n - 1) : f[k] \in FullLines}
           : n \in 0..MaxLines}

\* the tokenizer as loaded: the first tokens of this list
BaseTokens == <<<<"<pad>">>, <<"a">>, <<"b">>, <<"x">>, <<" ", "y">>, <<"c">>>>
BaseVocab(n) == SubSeq(BaseTokens, 1, n)

\* the matrix as loaded: row i (counted from 0) holds the value <<"pre", i>>
LoadedMatrix(rows) == [i \in 1..rows |-> <<"pre", i - 1>>]

\* line.rstrip('\n')
RECURSIVE rstrip(_)
rstrip(line) ==
    IF line # <<>> /\ line[Len(line)] = "\n"
        THEN rstrip(SubSeq(line, 1, Len(line) - 1))
        ELSE line

\* the reading with the empty lines left out
ReadNewVocabsSkipEmpty(file, prepend) ==
    LET kept == SelectSeq(file, LAMBDA line : rstrip(line) # <<>>)
    IN  Tuple([k \in 1..Len(kept) |->
            IF prepend THEN <<" ">> \o rstrip(kept[k]) ELSE rstrip(kept[k])])

\* lines 407-421: one token per line, a space before it when asked for
ReadNewVocabs(file, prepend) ==
    Tuple([k \in 1..Len(file) |->
        IF prepend THEN <<" ">> \o rstrip(file[k]) ELSE rstrip(file[k])])

\* tokenizer.add_tokens([w]): w gets the next id unless the vocabulary
\* already holds it
add_tokens(vocab, w) ==
    IF \E i \in 1..Len(vocab) : vocab[i] = w THEN vocab ELSE Append(vocab, w)

\* the loop with the tokens taken last to first
RECURSIVE RegisterReversed(_, _)
RegisterReversed(vocab, ws) ==
    IF ws = <<>> THEN vocab
    ELSE RegisterReversed(add_tokens(vocab, ws[Len(ws)]), SubSeq(ws, 1, Len(ws) - 1))

\* lines 422-423: for w in new_vocabs: tokenizer.add_tokens([w])
RECURSIVE RegisterAll(_, _)
RegisterAll(vocab, ws) ==
    IF ws = <<>> THEN vocab
    ELSE RegisterAll(add_tokens(vocab, Head(ws)), Tail(ws))

\* model.resize_token_embeddings(n): a matrix of n rows, the first
\* min(old, n) rows copied, every further row freshly initialised
resize_token_embeddings(e, n) ==
    Tuple([i \in 1..n |-> IF i <= Len(e) THEN e[i] ELSE <<"init", i - 1>>])

\* every branch resizing to the tokenizer's size
ResizeTargetTokenizer(name, tok_len, n) == tok_len

\* lines 433-440: the size the matrix is resized to
ResizeTarget(name, tok_len, n) ==
    IF HasT5(name) THEN tok_len
    ELSE IF HasBart(name) THEN _BART_EMB_SIZE + n
    ELSE _LED_EMB_SIZE + n

\* the 0-based row indices of emb.weight.data[:-n] for a matrix of `rows` rows
HeadRows(rows, n) == IF n = 0 THEN {} ELSE 0..(rows - n - 1)
\* the 0-based row indices of emb.weight.data[-n:], in order
TailRows(rows, n) ==
    IF n = 0 \/ n >= rows
        THEN [k \in 1..rows |-> k - 1]
        ELSE [k \in 1..n |-> rows - n + k - 1]

\* the population drawn from, new rows included
OldIdxRangeAllRows(tok_len, n) == 0..(tok_len - 1)

\* line 473: old_idx_range = range(0, len(tokenizer) - len(new_vocabs))
OldIdxRange(tok_len, n) == 0..(tok_len - n - 1)

\* a draw with replacement
DrawsWithReplacement(pop, n) == [1..n -> pop]

\* line 474: np.random.choice(old_idx_range, n, replace=False): every
\* sequence of n different members of the population can be drawn
Draws(pop, n) ==
    {d \in [1..n -> pop] : \A j, k \in 1..n : j # k => d[j] # d[k]}

----------------------------------------------------------------------------
(* The files of the predict loop *)

\* line 56
_VALID_TEST_DATASET_NAMES == <<"gen", "iid_test", "exposure_examples", "iid_test_novel_words">>
DatasetNames == {_VALID_TEST_DATASET_NAMES[k] : k \in 1..Len(_VALID_TEST_DATASET_NAMES)}

\* trainer.save_metrics(test_dataset_name, metrics), line 776
ResultsFile(name) == <<"results", name>>
\* line 796: accuracies_{test_dataset_name}_{basename(output_dir)}.json
AccuraciesFile(name) == <<"accuracies", name>>
\* line 831: 'accuracy_{}.json'.format(training_args.output_dir)
AccuracyFile == <<"accuracy">>
\* line 844: generations_{test_dataset_name}.tsv
GenerationsFile(name) == <<"generations", name>>

FileNames ==
    {ResultsFile(d) : d \in DatasetNames} \cup {AccuraciesFile(d) : d \in DatasetNames}
        \cup {GenerationsFile(d) : d \in DatasetNames} \cup {AccuracyFile}

\* a file that does not exist, and a file as the iteration of the dataset
\* `name` wrote it
Absent == [by |-> "none", content |-> "none"]
Written(name, content) == [by |-> name, content |-> content]
NoFiles == [f \in FileNames |-> Absent]

----------------------------------------------------------------------------
(* Values of the variables a specification does not use *)

NoScore ==
    /\ pad_token_id = 0
    /\ ignore_pad_token_for_loss = TRUE
    /\ caller = "none"
    /\ raw_predictions = <<>>
    /\ raw_labels = <<>>
    /\ accuracy_per_sequence = Raised("none")
    /\ exact_matches = <<>>

NoAgg ==
    /\ benchmark = "none"
    /\ test_dataset_name = "none"
    /\ condition_list = <<>>
    /\ report = [status |-> "none"]
    /\ test_datasets_d = <<>>
    /\ files = NoFiles

NoVocab ==
    /\ model_name = "none"
    /\ add_new_vocab = FALSE
    /\ vocab_init_method = "default"
    /\ prepend_space_to_vocab = FALSE
    /\ vocab_file = <<>>
    /\ new_vocabs = <<>>
    /\ tokenizer = <<>>
    /\ base_size = 0
    /\ emb = <<>>
    /\ emb0 = <<>>
    /\ old_rows = {}
    /\ rand_indices = <<>>
    /\ error = "none"

----------------------------------------------------------------------------
(* SpecScore: the two callers of sequence_accuracy *)

\* the generated ids as the trainer hands them over: a start-of-sequence
\* column (the decoder start token) before the generated tokens
WithSOS(body, sos) == Tuple([i \in 1..Len(body) |-> <<sos>> \o body[i]])

\* the arguments the callers pass to sequence_accuracy (lines 685-692, 779-791)
Predictions == StripSOS(raw_predictions)
Labels ==
    IF ignore_pad_token_for_loss
        THEN ReplaceIgnore(raw_labels, pad_token_id)
        ELSE raw_labels

InitScore ==
    /\ pc = "trainer"
    /\ pad_token_id \in PadIds
    /\ ignore_pad_token_for_loss = TRUE
    /\ caller = "none"
    /\ raw_predictions = <<>>
    /\ raw_labels = <<>>
    /\ accuracy_per_sequence = Raised("none")
    /\ exact_matches = <<>>
    /\ NoAgg
    /\ NoVocab

\* the scoring both callers do with what the trainer produced
Score(who, preds, labels) ==
    /\ caller' = who
    /\ raw_predictions' = preds
    /\ raw_labels' = labels
    /\ LET p == StripSOS(preds)
           l == IF ignore_pad_token_for_loss
                    THEN ReplaceIgnore(labels, pad_token_id) ELSE labels
           acc == sequence_accuracy(p, l, pad_token_id)
       IN  /\ accuracy_per_sequence' = acc
           /\ exact_matches' = ExactMatches(acc)
           \* an exception of sequence_accuracy ends the run
           /\ pc' = IF acc.status = "ok" THEN "scored" ELSE "failed"
    /\ UNCHANGED <<pad_token_id, ignore_pad_token_for_loss>>
    /\ UNCHANGED aggVars
    /\ UNCHANGED vocabVars

\* compute_metrics(eval_preds), lines 683-694
ComputeMetrics ==
    /\ pc = "trainer"
    /\ \E body \in Arrays, labels \in LabelArrays :
         Score("compute_metrics", WithSOS(body, pad_token_id), labels)

\* the predict loop up to line 792
PredictScore ==
    /\ pc = "trainer"
    /\ \E body \in Arrays, labels \in LabelArrays :
         Score("predict", WithSOS(body, pad_token_id), labels)

NextScore == ComputeMetrics \/ PredictScore

SpecScore == InitScore /\ [][NextScore]_vars

----------------------------------------------------------------------------
(* Properties of the scoring *)

\* sequence_accuracy has been called
Scored == caller # "none" /\ pc \in {"scored", "failed"}
BatchP == Len(Predictions)
BatchQ == Len(Labels)
WidthP == Len(Predictions[1])
WidthQ == Len(Labels[1])
WidthL == Max(WidthP, WidthQ)

\* row r right-padded with zeros to length n
ZeroPadded(r, n) == [j \in 1..n |-> IF j <= Len(r) THEN r[j] ELSE 0]

\* the mask, the correct count and the length as the specification words
\* them: everything is taken from the arrays padded to the common length
SpecMask(i, j) == ZeroPadded(Labels[i], WidthL)[j] # pad_token_id
SpecCorrect(i) ==
    Cardinality({j \in 1..WidthL :
        /\ SpecMask(i, j)
        /\ ZeroPadded(Predictions[i], WidthL)[j] = ZeroPadded(Labels[i], WidthL)[j]})
SpecLength(i) == Cardinality({j \in 1..WidthL : SpecMask(i, j)})

\* the quotient q is the number c / l (both undefined when l = 0)
SameQuotient(q, c, l) ==
    \/ q.den = 0 /\ l = 0
    \/ q.den # 0 /\ l # 0 /\ q.num * l = c * q.den

\* C1: with equal batch sizes, for every relation between the widths P and Q,
\* sequence_accuracy returns for each example correct_i / length_i, the
\* mask being taken from the labels padded to L = max(P, Q).
C1_AccuracyIsCorrectOverLength ==
    (Scored /\ BatchP = BatchQ) =>
        /\ accuracy_per_sequence.status = "ok"
        /\ Len(accuracy_per_sequence.value) = BatchQ
        /\ \A i \in 1..BatchQ :
              SameQuotient(accuracy_per_sequence.value[i],
                           SpecCorrect(i), SpecLength(i))

\* example i was flagged as an exact match
Flagged(i) ==
    /\ accuracy_per_sequence.status = "ok"
    /\ i \in 1..Len(exact_matches)
    /\ exact_matches[i]

NonPad(r) == SelectSeq(r, LAMBDA t : t # pad_token_id)

\* C2 as claimed: an example is flagged as an exact match iff the non-pad
\* tokens of the prediction equal the non-pad tokens of the gold label in
\* full.
C2_FlaggedIffNonPadTokensEqual ==
    (Scored /\ BatchP = BatchQ) =>
        \A i \in 1..BatchQ :
            Flagged(i) <=> NonPad(Predictions[i]) = NonPad(Labels[i])

\* the gold label has a non-pad token, and the zero-padded prediction holds
\* the gold token at every position where the gold label is not padding
AgreesOnGoldPositions(i) ==
    /\ \E j \in 1..WidthQ : Labels[i][j] # pad_token_id
    /\ \A j \in 1..WidthQ :
          Labels[i][j] # pad_token_id =>
              ZeroPadded(Predictions[i], WidthQ)[j] = Labels[i][j]

\* C2 as amended: when the prediction array is no wider than the label
\* array, an example is flagged iff the gold label has a non-pad token and
\* the prediction agrees with it at every non-pad gold position (what the
\* prediction holds where the gold label is padding is ignored); when the
\* prediction array is wider, nothing is flagged unless the label width is 1.
C2_FlaggedIffAgreesOnGoldPositions ==
    (Scored /\ BatchP = BatchQ) =>
        /\ WidthP <= WidthQ =>
              \A i \in 1..BatchQ : Flagged(i) <=> AgreesOnGoldPositions(i)
        /\ (WidthP > WidthQ /\ WidthQ # 1) =>
              \A i \in 1..BatchQ : ~Flagged(i)

\* a prediction with a non-pad token after the end of the gold sequence is
\* flagged, in the predict path
C2_Witness ==
    /\ Scored /\ caller = "predict" /\ BatchP = BatchQ /\ WidthP <= WidthQ
    /\ \E i \in 1..BatchQ :
          /\ Flagged(i)
          /\ \E j \in 1..WidthP :
                Labels[i][j] = pad_token_id /\ Predictions[i][j] # pad_token_id

\* C9: predictions equal to the labels after zero-padding the shorter one,
\* no gold sequence all padding: every example scores 1.0.
C9_EqualAfterPaddingScoresOne ==
    ( /\ Scored /\ BatchP = BatchQ
      /\ \A i \in 1..BatchQ :
            /\ ZeroPadded(Predictions[i], WidthL) = ZeroPadded(Labels[i], WidthL)
            /\ \E j \in 1..WidthQ : Labels[i][j] # pad_token_id )
    =>  /\ accuracy_per_sequence.status = "ok"
        /\ \A i \in 1..BatchQ : IsOne(accuracy_per_sequence.value[i])

\* C10: with different batch sizes sequence_accuracy raises, whatever the
\* widths, and returns no accuracy array.
C10_BatchMismatchRaises ==
    (Scored /\ BatchP # BatchQ) =>
        /\ accuracy_per_sequence.status = "AssertionError"
        /\ accuracy_per_sequence.value = <<>>
        /\ exact_matches = <<>>

\* batch sizes and widths both differ, and the call raised
C10_Witness ==
    /\ Scored /\ BatchP # BatchQ /\ WidthP > WidthQ /\ WidthQ > 0
    /\ accuracy_per_sequence.status = "AssertionError"

\* the gold sequence of example i consists of pad_token_id only
AllPadGold(i) == \A j \in 1..WidthQ : Labels[i][j] = pad_token_id

\* q is nan: 0 / 0
IsNaN(q) == q.den = 0 /\ q.num = 0

\* what sequence_accuracy returns for example i scored as a batch of its own
ScoredAlone(i) ==
    sequence_accuracy(<<Predictions[i]>>, <<Labels[i]>>, pad_token_id)

\* C11: for an example whose gold sequence is all padding the call fails
\* with a divide-by-zero error or returns nan for it: no number in [0,1],
\* no exact-match flag, and every other example keeps the accuracy it has
\* when scored on its own.
C11_AllPadGoldIsNaNOrDivideByZero ==
    (Scored /\ BatchP = BatchQ) =>
        \A i \in 1..BatchQ :
            AllPadGold(i) =>
                \/ accuracy_per_sequence.status = "ZeroDivisionError"
                \/ /\ accuracy_per_sequence.status = "ok"
                   /\ IsNaN(accuracy_per_sequence.value[i])
                   /\ ~Flagged(i)
                   /\ \A k \in 1..BatchQ :
                         ~AllPadGold(k) =>
                             /\ ScoredAlone(k).status = "ok"
                             /\ accuracy_per_sequence.value[k]
                                  = ScoredAlone(k).value[1]

----------------------------------------------------------------------------
(* SpecIgnore: the two callers on label arrays as the data collator pads    *)
(* them (lines 584-589, 644-651): with -100 when ignore_pad_token_for_loss  *)
(* is set, with the pad id otherwise                                        *)

GeneratedIds == {0, 1}
CollatedLabelIds(ignore) == IF ignore THEN {-100, 0, 1} ELSE {0, 1}

GeneratedArrays == UNION {[1..s[1] -> [1..s[2] -> GeneratedIds]] : s \in Shapes}
CollatedLabelArrays(ignore) ==
    UNION {[1..s[1] -> [1..s[2] -> CollatedLabelIds(ignore)]]
           : s \in {t \in Shapes : t[2] >= 1}}

InitIgnore ==
    /\ pc = "trainer"
    /\ pad_token_id \in PadIds
    /\ ignore_pad_token_for_loss \in BOOLEAN
    /\ caller = "none"
    /\ raw_predictions = <<>>
    /\ raw_labels = <<>>
    /\ accuracy_per_sequence = Raised("none")
    /\ exact_matches = <<>>
    /\ NoAgg
    /\ NoVocab

\* compute_metrics(eval_preds), lines 683-694
ComputeMetricsCollated ==
    /\ pc = "trainer"
    /\ \E body \in GeneratedArrays,
          labels \in CollatedLabelArrays(ignore_pad_token_for_loss) :
         Score("compute_metrics", WithSOS(body, pad_token_id), labels)

\* the predict loop, lines 778-792
PredictScoreCollated ==
    /\ pc = "trainer"
    /\ \E body \in GeneratedArrays,
          labels \in CollatedLabelArrays(ignore_pad_token_for_loss) :
         Score("predict", WithSOS(body, pad_token_id), labels)

NextIgnore == ComputeMetricsCollated \/ PredictScoreCollated

SpecIgnore == InitIgnore /\ [][NextIgnore]_vars

\* the positions of row i of the labels as handed over that hold neither
\* the ignore id nor the pad id
Counted(i) ==
    {j \in 1..Len(raw_labels[i]) : raw_labels[i][j] \notin {-100, pad_token_id}}

\* C19: with ignore_pad_token_for_loss set, in both callers, the labels
\* passed to sequence_accuracy hold pad_token_id where the labels handed
\* over hold -100 and are the same everywhere else; a position of -100
\* counts neither in the length nor in the correct count of its example.
C19_IgnoreIdCountsAsPadding ==
    (Scored /\ ignore_pad_token_for_loss) =>
        /\ Len(Labels) = Len(raw_labels)
        /\ \A i \in 1..Len(raw_labels) :
              /\ Len(Labels[i]) = Len(raw_labels[i])
              /\ \A j \in 1..Len(raw_labels[i]) :
                    Labels[i][j] = IF raw_labels[i][j] = -100
                                       THEN pad_token_id ELSE raw_labels[i][j]
        /\ accuracy_per_sequence.status = "ok" =>
              \A i \in 1..BatchQ :
                  /\ accuracy_per_sequence.value[i].den = Cardinality(Counted(i))
                  /\ Counted(i) = {} => accuracy_per_sequence.value[i].num = 0
                  /\ WidthP <= WidthQ =>
                        accuracy_per_sequence.value[i].num =
                            Cardinality({j \in Counted(i) :
                                ZeroPadded(Predictions[i], WidthQ)[j] = raw_labels[i][j]})

\* in the predict path, a gold row of one token and one -100 is matched by a
\* prediction that holds something else at the position of the -100
C19_Witness ==
    /\ Scored /\ ignore_pad_token_for_loss /\ caller = "predict"
    /\ accuracy_per_sequence.status = "ok"
    /\ WidthP <= WidthQ
    /\ \E i \in 1..BatchQ :
          /\ Flagged(i)
          /\ \E j \in 1..WidthP :
                /\ raw_labels[i][j] = -100
                /\ Predictions[i][j] # pad_token_id

----------------------------------------------------------------------------
(* Spec: main() from line 401 to the construction of the trainer *)

\* the model, the tokenizer and the arguments as main() has them at line 401
InitVocab ==
    /\ pc = "add_vocab"
    /\ model_name \in ModelNames
    /\ add_new_vocab \in BOOLEAN
    /\ vocab_init_method \in InitMethods
    /\ prepend_space_to_vocab \in BOOLEAN
    /\ vocab_file \in VocabFiles
    /\ new_vocabs = <<>>
    /\ base_size \in 1..MaxBase
    /\ tokenizer = BaseVocab(base_size)
    /\ \E spare \in 0..MaxSpare :
          /\ emb0 = LoadedMatrix(base_size + spare)
          /\ emb = emb0
    /\ old_rows = {}
    /\ rand_indices = <<>>
    /\ error = "none"

Init ==
    /\ InitVocab
    /\ NoScore
    /\ NoAgg

Fail(what) ==
    /\ error' = what
    /\ pc' = "failed"

\* line 402 false: nothing is added
NoNewVocab ==
    /\ pc = "add_vocab"
    /\ ~add_new_vocab
    /\ pc' = "trainer"
    /\ UNCHANGED <<model_name, add_new_vocab, vocab_init_method,
                   prepend_space_to_vocab, vocab_file, new_vocabs, tokenizer,
                   base_size, emb, emb0, old_rows, rand_indices, error>>
    /\ UNCHANGED scoreVars
    /\ UNCHANGED aggVars

\* lines 402-405: the T5 matrix is cut to the tokenizer's size
CutSpuriousRows ==
    /\ pc = "add_vocab"
    /\ add_new_vocab
    /\ emb' = IF HasT5(model_name)
                  THEN resize_token_embeddings(emb, Len(tokenizer))
                  ELSE emb
    /\ pc' = "read_file"
    /\ UNCHANGED <<model_name, add_new_vocab, vocab_init_method,
                   prepend_space_to_vocab, vocab_file, new_vocabs, tokenizer,
                   base_size, emb0, old_rows, rand_indices, error>>
    /\ UNCHANGED scoreVars
    /\ UNCHANGED aggVars

\* lines 407-421
ReadVocabFile ==
    /\ pc = "read_file"
    /\ new_vocabs' = ReadNewVocabs(vocab_file, prepend_space_to_vocab)
    /\ pc' = "add_tokens"
    /\ UNCHANGED <<model_name, add_new_vocab, vocab_init_method,
                   prepend_space_to_vocab, vocab_file, tokenizer,
                   base_size, emb, emb0, old_rows, rand_indices, error>>
    /\ UNCHANGED scoreVars
    /\ UNCHANGED aggVars

\* lines 422-431
AddTokens ==
    /\ pc = "add_tokens"
    /\ tokenizer' = RegisterAll(tokenizer, new_vocabs)
    /\ pc' = "resize"
    /\ UNCHANGED <<model_name, add_new_vocab, vocab_init_method,
                   prepend_space_to_vocab, vocab_file, new_vocabs,
                   base_size, emb, emb0, old_rows, rand_indices, error>>
    /\ UNCHANGED scoreVars
    /\ UNCHANGED aggVars

\* lines 433-440
ResizeEmbeddings ==
    /\ pc = "resize"
    /\ HasT5(model_name) \/ HasBart(model_name) \/ HasLed(model_name)
    /\ emb' = resize_token_embeddings(
                  emb, ResizeTarget(model_name, Len(tokenizer), Len(new_vocabs)))
    /\ pc' = "init_rows"
    /\ UNCHANGED <<model_name, add_new_vocab, vocab_init_method,
                   prepend_space_to_vocab, vocab_file, new_vocabs, tokenizer,
                   base_size, emb0, old_rows, rand_indices, error>>
    /\ UNCHANGED scoreVars
    /\ UNCHANGED aggVars

\* the branch of lines 441-442 left out: the run goes on to the new rows
UnsupportedModelGoesOn ==
    /\ pc = "resize"
    /\ ~(HasT5(model_name) \/ HasBart(model_name) \/ HasLed(model_name))
    /\ pc' = "init_rows"
    /\ UNCHANGED vocabVars
    /\ UNCHANGED scoreVars
    /\ UNCHANGED aggVars

\* lines 441-442
UnsupportedModel ==
    /\ pc = "resize"
    /\ ~(HasT5(model_name) \/ HasBart(model_name) \/ HasLed(model_name))
    /\ Fail("ValueError")
    /\ UNCHANGED <<model_name, add_new_vocab, vocab_init_method,
                   prepend_space_to_vocab, vocab_file, new_vocabs, tokenizer,
                   base_size, emb, emb0, old_rows, rand_indices>>
    /\ UNCHANGED scoreVars
    /\ UNCHANGED aggVars

\* emb with the rows `targets` (0-based, in order) set to `values`
WithRows(e, targets, values) ==
    Tuple([i \in 1..Len(e) |->
        IF \E k \in 1..Len(targets) : targets[k] = i - 1
            THEN values[CHOOSE k \in 1..Len(targets) : targets[k] = i - 1]
            ELSE e[i]])

\* lines 454-470.  MultivariateNormal refuses a mean and covariance taken
\* from fewer than two rows (nan, or a covariance that is not positive
\* definite); the k-th sample is the value <<"draw", k>>.
InitAvg ==
    /\ pc = "init_rows"
    /\ vocab_init_method = "avg"
    /\ LET n == Len(new_vocabs)
           old == HeadRows(Len(emb), n)
       IN  IF Cardinality(old) < 2
               THEN /\ Fail("ValueError")
                    /\ old_rows' = old
                    /\ UNCHANGED emb
               ELSE /\ old_rows' = old
                    /\ emb' = WithRows(emb, TailRows(Len(emb), n),
                                       [k \in 1..n |-> <<"draw", k>>])
                    /\ pc' = "trainer"
                    /\ UNCHANGED error
    /\ UNCHANGED <<model_name, add_new_vocab, vocab_init_method,
                   prepend_space_to_vocab, vocab_file, new_vocabs, tokenizer,
                   base_size, emb0, rand_indices>>
    /\ UNCHANGED scoreVars
    /\ UNCHANGED aggVars

\* lines 471-481
InitExistingWord ==
    /\ pc = "init_rows"
    /\ vocab_init_method = "existing_word"
    /\ LET n == Len(new_vocabs)
           pop == OldIdxRange(Len(tokenizer), n)
       IN  IF n > Cardinality(pop)
               \* np.random.choice: a larger sample than the population
               THEN /\ Fail("ValueError")
                    /\ UNCHANGED <<emb, rand_indices, old_rows>>
               ELSE \E d \in Draws(pop, n) :
                    /\ rand_indices' = d
                    /\ IF n = 0
                           \* torch.stack of an empty tuple
                           THEN /\ Fail("RuntimeError")
                                /\ UNCHANGED <<emb, old_rows>>
                       ELSE IF \E k \in 1..n : d[k] >= Len(emb)
                           \* emb.weight.data[ridx, :] beyond the last row
                           THEN /\ Fail("IndexError")
                                /\ UNCHANGED <<emb, old_rows>>
                       ELSE /\ old_rows' = HeadRows(Len(emb), n)
                            /\ emb' = WithRows(emb, TailRows(Len(emb), n),
                                               [k \in 1..n |-> emb[d[k] + 1]])
                            /\ pc' = "trainer"
                            /\ UNCHANGED error
    /\ UNCHANGED <<model_name, add_new_vocab, vocab_init_method,
                   prepend_space_to_vocab, vocab_file, new_vocabs, tokenizer,
                   base_size, emb0>>
    /\ UNCHANGED scoreVars
    /\ UNCHANGED aggVars

\* lines 482-483: any other method only prints the new rows
InitDefault ==
    /\ pc = "init_rows"
    /\ vocab_init_method \notin {"avg", "existing_word"}
    /\ pc' = "trainer"
    /\ UNCHANGED <<model_name, add_new_vocab, vocab_init_method,
                   prepend_space_to_vocab, vocab_file, new_vocabs, tokenizer,
                   base_size, emb, emb0, old_rows, rand_indices, error>>
    /\ UNCHANGED scoreVars
    /\ UNCHANGED aggVars

Next ==
    \/ NoNewVocab
    \/ CutSpuriousRows
    \/ ReadVocabFile
    \/ AddTokens
    \/ ResizeEmbeddings
    \/ UnsupportedModel
    \/ InitAvg
    \/ InitExistingWord
    \/ InitDefault

Spec == Init /\ [][Next]_vars

----------------------------------------------------------------------------
(* SpecAgg: the accuracy report of the predict loop, lines 794-834 *)

MaxExamples == 4     \* examples of a test dataset

Benchmarks == {"COGS", "SCAN", "other"}
Conditions == {"a", "b", "overall"}

FlagLists == UNION {[1..n -> BOOLEAN] : n \in 1..MaxExamples}
ConditionLists == UNION {[1..n -> Conditions] : n \in 0..(MaxExamples + 1)}

\* flags.sum()
CountTrue(flags, positions) == Cardinality({i \in positions : flags[i]})

\* line 804: idx = [i for i, x in enumerate(condition_list) if x == cond]
\* (positions counted from 1 here)
Idx(conds, cond) == {i \in 1..Len(conds) : conds[i] = cond}

\* the accuracy of a group taken over all examples
GroupAccuracyOverAll(flags, conds, cond) ==
    [num |-> CountTrue(flags, Idx(conds, cond)), den |-> Len(flags)]

\* line 805: exact_matches[idx].sum() / len(idx)
GroupAccuracy(flags, conds, cond) ==
    [num |-> CountTrue(flags, Idx(conds, cond)),
     den |-> Cardinality(Idx(conds, cond))]

\* lines 808, 817, 826: exact_matches.sum() / len(exact_matches)
OverallAccuracy(flags) ==
    [num |-> CountTrue(flags, 1..Len(flags)), den |-> Len(flags)]

\* lines 801-808: one entry per member of set(condition_list), then the
\* entry "overall" is assigned
ByCondition(flags, conds) ==
    [c \in {conds[i] : i \in 1..Len(conds)} \cup {"overall"} |->
        IF c = "overall" THEN OverallAccuracy(flags)
        ELSE GroupAccuracy(flags, conds, c)]

InitAgg ==
    /\ pc = "scored"
    /\ benchmark \in Benchmarks
    /\ test_dataset_name \in DatasetNames
    /\ exact_matches \in FlagLists
    /\ condition_list = <<>>
    /\ report = [status |-> "none"]
    /\ test_datasets_d = <<test_dataset_name>>
    /\ files = NoFiles
    /\ pad_token_id = 0
    /\ ignore_pad_token_for_loss = TRUE
    /\ caller = "predict"
    /\ raw_predictions = <<>>
    /\ raw_labels = <<>>
    /\ accuracy_per_sequence = Raised("none")
    /\ NoVocab

\* lines 798-814: the report by condition of the COGS dataset 'gen'
ReportByCondition ==
    /\ pc = "scored"
    /\ benchmark = "COGS"
    /\ test_dataset_name = "gen"
    /\ \E conds \in ConditionLists :
          /\ condition_list' = conds
          /\ IF \E i \in 1..Len(conds) : i > Len(exact_matches)
                 \* exact_matches[idx] with an index beyond the last example
                 THEN /\ report' = [status |-> "IndexError"]
                      /\ pc' = "failed"
                      /\ UNCHANGED files
                 ELSE /\ report' = [status |-> "written", mode |-> "grouped",
                                    content |-> ByCondition(exact_matches, conds)]
                      \* lines 813-814
                      /\ files' = [files EXCEPT ![AccuraciesFile(test_dataset_name)] =
                                      Written(test_dataset_name,
                                              ByCondition(exact_matches, conds))]
                      /\ pc' = "reported"
    /\ UNCHANGED <<benchmark, test_dataset_name, test_datasets_d>>
    /\ UNCHANGED <<pad_token_id, ignore_pad_token_for_loss, caller,
                   raw_predictions, raw_labels, accuracy_per_sequence,
                   exact_matches>>
    /\ UNCHANGED vocabVars

\* lines 816-821 and 824-834: a single float
ReportOverall ==
    /\ pc = "scored"
    /\ \/ benchmark = "COGS" /\ test_dataset_name # "gen"
       \/ benchmark = "SCAN"
    /\ report' = [status |-> "written", mode |-> "single",
                  content |-> OverallAccuracy(exact_matches)]
    \* lines 820-821 and 833-834
    /\ files' = [files EXCEPT
                    ![IF benchmark = "COGS"
                          THEN AccuraciesFile(test_dataset_name) ELSE AccuracyFile] =
                        Written(test_dataset_name, OverallAccuracy(exact_matches))]
    /\ pc' = "reported"
    /\ UNCHANGED <<benchmark, test_dataset_name, condition_list, test_datasets_d>>
    /\ UNCHANGED scoreVars
    /\ UNCHANGED vocabVars

\* any other benchmark: no report is written
NoReport ==
    /\ pc = "scored"
    /\ benchmark \notin {"COGS", "SCAN"}
    /\ pc' = "reported"
    /\ UNCHANGED aggVars
    /\ UNCHANGED scoreVars
    /\ UNCHANGED vocabVars

NextAgg == ReportByCondition \/ ReportOverall \/ NoReport

SpecAgg == InitAgg /\ [][NextAgg]_vars

----------------------------------------------------------------------------
(* Properties of the aggregation *)

Grouped == pc = "reported" /\ report.status = "written" /\ report.mode = "grouped"
LabelsOf(conds) == {conds[i] : i \in 1..Len(conds)}

\* the quotients q and r are the same number
EqualQuotients(q, r) ==
    \/ q.den = 0 /\ r.den = 0
    \/ q.den # 0 /\ r.den # 0 /\ q.num * r.den = r.num * q.den

\* the entry the claim gives the label c
ClaimedEntry(c) ==
    [num |-> Cardinality({i \in 1..Len(condition_list) :
                            condition_list[i] = c /\ exact_matches[i]}),
     den |-> Cardinality({i \in 1..Len(condition_list) : condition_list[i] = c})]
ClaimedOverall ==
    [num |-> Cardinality({i \in 1..Len(exact_matches) : exact_matches[i]}),
     den |-> Len(exact_matches)]

\* C3 as claimed: with as many condition labels as flags, the mapping has
\* one entry per distinct label, holding matches / size of its group, and
\* the entry "overall" holding all matches / all examples.
C3_OneEntryPerLabelPlusOverall ==
    (Grouped /\ Len(condition_list) = Len(exact_matches)) =>
        /\ DOMAIN report.content = LabelsOf(condition_list) \cup {"overall"}
        /\ \A c \in LabelsOf(condition_list) :
              EqualQuotients(report.content[c], ClaimedEntry(c))
        /\ EqualQuotients(report.content["overall"], ClaimedOverall)

\* C3 as amended: the same, for every label other than the string
\* "overall"; a group labelled "overall" has no entry of its own, the key
\* holds the accuracy over all examples.
C3_OneEntryPerOtherLabelPlusOverall ==
    (Grouped /\ Len(condition_list) = Len(exact_matches)) =>
        /\ DOMAIN report.content = LabelsOf(condition_list) \cup {"overall"}
        /\ \A c \in LabelsOf(condition_list) \ {"overall"} :
              EqualQuotients(report.content[c], ClaimedEntry(c))
        /\ EqualQuotients(report.content["overall"], ClaimedOverall)

\* the example of the specification: flags T F T T under a a b b give
\* a: 0.5, b: 1.0, overall: 0.75
C3_Witness ==
    /\ Grouped
    /\ exact_matches = <<TRUE, FALSE, TRUE, TRUE>>
    /\ condition_list = <<"a", "a", "b", "b">>
    /\ DOMAIN report.content = {"a", "b", "overall"}
    /\ EqualQuotients(report.content["a"], [num |-> 1, den |-> 2])
    /\ EqualQuotients(report.content["b"], [num |-> 1, den |-> 1])
    /\ EqualQuotients(report.content["overall"], [num |-> 3, den |-> 4])

\* the aggregation by condition has run
Aggregated ==
    /\ pc \in {"reported", "failed"}
    /\ benchmark = "COGS"
    /\ test_dataset_name = "gen"

\* C12: when the number of condition labels differs from the number of
\* examples scored, be the list shorter or longer, the aggregation ends with
\* an error, and no mapping is produced and no report written.
C12_LengthMismatchFails ==
    (Aggregated /\ Len(condition_list) # Len(exact_matches)) =>
        /\ pc = "failed"
        /\ report.status \notin {"none", "written"}

----------------------------------------------------------------------------
(* SpecPredict: the predict loop of main(), lines 761-849, in a run with    *)
(* predict_with_generate (compute_metrics is installed, the predictions are *)
(* generated ids)                                                           *)

MaxDatasets == 2     \* test datasets of a run

\* lines 623-641: the datasets of the run, in the order of
\* _VALID_TEST_DATASET_NAMES
TestDatasetLists ==
    {SelectSeq(_VALID_TEST_DATASET_NAMES, LAMBDA d : d \in S) :
        S \in {T \in SUBSET DatasetNames : Cardinality(T) \in 1..MaxDatasets}}

\* what trainer.predict hands back for a dataset: the generated ids (without
\* the start column) and the label ids
TestResults ==
    { [body |-> << <<2>>, <<2>> >>, label_ids |-> << <<2>>, <<2>> >>],
      [body |-> << <<2>>, <<0>> >>, label_ids |-> << <<2>>, <<2>> >>],
      [body |-> << <<2, 2, 2>> >>, label_ids |-> << <<2, 2>> >>] }

\* the number of datasets the loop has taken up
Position ==
    IF test_dataset_name = "none" THEN 0
    ELSE CHOOSE k \in 1..Len(test_datasets_d) : test_datasets_d[k] = test_dataset_name

InitPredict ==
    /\ pc = "predict"
    /\ benchmark \in Benchmarks
    /\ test_datasets_d \in TestDatasetLists
    /\ test_dataset_name = "none"
    /\ condition_list = <<>>
    /\ report = [status |-> "none"]
    /\ files = NoFiles
    /\ pad_token_id \in PadIds
    /\ ignore_pad_token_for_loss = TRUE
    /\ caller = "none"
    /\ raw_predictions = <<>>
    /\ raw_labels = <<>>
    /\ accuracy_per_sequence = Raised("none")
    /\ exact_matches = <<>>
    /\ NoVocab

\* lines 762-776: trainer.predict, which calls compute_metrics on what was
\* generated, then trainer.save_metrics
Predict ==
    /\ pc = "predict"
    /\ Position < Len(test_datasets_d)
    /\ test_dataset_name' = test_datasets_d[Position + 1]
    /\ \E r \in TestResults :
          LET acc == sequence_accuracy(
                         r.body,
                         IF ignore_pad_token_for_loss
                             THEN ReplaceIgnore(r.label_ids, pad_token_id)
                             ELSE r.label_ids,
                         pad_token_id)
          IN  /\ raw_predictions' = WithSOS(r.body, pad_token_id)
              /\ raw_labels' = r.label_ids
              /\ caller' = "compute_metrics"
              /\ accuracy_per_sequence' = acc
              /\ exact_matches' = ExactMatches(acc)
              /\ IF acc.status = "ok"
                     THEN /\ files' = [files EXCEPT ![ResultsFile(test_dataset_name')] =
                                          Written(test_dataset_name', "metrics")]
                          /\ pc' = "score"
                     ELSE /\ UNCHANGED files
                          /\ pc' = "failed"
    /\ report' = [status |-> "none"]
    /\ UNCHANGED <<benchmark, condition_list, test_datasets_d>>
    /\ UNCHANGED <<pad_token_id, ignore_pad_token_for_loss>>
    /\ UNCHANGED vocabVars

\* lines 778-792
ScorePredictions ==
    /\ pc = "score"
    /\ LET acc == sequence_accuracy(Predictions, Labels, pad_token_id)
       IN  /\ caller' = "predict"
           /\ accuracy_per_sequence' = acc
           /\ exact_matches' = ExactMatches(acc)
           /\ pc' = IF acc.status = "ok" THEN "scored" ELSE "failed"
    /\ UNCHANGED <<pad_token_id, ignore_pad_token_for_loss, raw_predictions, raw_labels>>
    /\ UNCHANGED aggVars
    /\ UNCHANGED vocabVars

\* lines 836-849
WriteGenerations ==
    /\ pc = "reported"
    /\ files' = [files EXCEPT ![GenerationsFile(test_dataset_name)] =
                    Written(test_dataset_name, "prediction\tgold")]
    /\ pc' = "predict"
    /\ UNCHANGED <<benchmark, test_dataset_name, condition_list, report, test_datasets_d>>
    /\ UNCHANGED scoreVars
    /\ UNCHANGED vocabVars

\* line 762: no dataset is left
PredictDone ==
    /\ pc = "predict"
    /\ Position = Len(test_datasets_d)
    /\ pc' = "done"
    /\ UNCHANGED aggVars
    /\ UNCHANGED scoreVars
    /\ UNCHANGED vocabVars

NextPredict ==
    \/ Predict
    \/ ScorePredictions
    \/ ReportByCondition
    \/ ReportOverall
    \/ NoReport
    \/ WriteGenerations
    \/ PredictDone

SpecPredict == InitPredict /\ [][NextPredict]_vars

----------------------------------------------------------------------------
(* SpecRun: main() from line 401 to its end: the vocabulary expansion, the  *)
(* trainer, the evaluation and the predict loop.  The vocabulary file has   *)
(* one line at most and the run one test dataset at most, which keeps the   *)
(* runs of all models, policies and benchmarks within reach.                *)

\* tokenizer.pad_token_id: 0 for T5, 1 for BART and LED
PadOf(name) == IF HasT5(name) THEN 0 ELSE 1

RunVocabFiles == {f \in VocabFiles : Len(f) <= 1}
RunDatasetLists == {<<>>, <<"iid_test">>}

InitRun ==
    /\ InitVocab
    /\ vocab_file \in RunVocabFiles
    /\ base_size = MaxBase
    /\ ~prepend_space_to_vocab
    /\ pad_token_id = PadOf(model_name)
    /\ ignore_pad_token_for_loss = TRUE
    /\ caller = "none"
    /\ raw_predictions = <<>>
    /\ raw_labels = <<>>
    /\ accuracy_per_sequence = Raised("none")
    /\ exact_matches = <<>>
    /\ NoAgg

\* the trainer is given the tokenizer main() loaded at first
BuildTrainerOnLoadedTokenizer ==
    /\ pc = "trainer"
    /\ tokenizer' = BaseVocab(base_size)
    /\ \E b \in Benchmarks, l \in RunDatasetLists :
          /\ benchmark' = b
          /\ test_datasets_d' = l
    /\ pc' = "evaluate"
    /\ UNCHANGED <<test_dataset_name, condition_list, report, files>>
    /\ UNCHANGED scoreVars
    /\ UNCHANGED <<model_name, add_new_vocab, vocab_init_method, prepend_space_to_vocab,
                   vocab_file, new_vocabs, base_size, emb, emb0,
                   old_rows, rand_indices, error>>

\* lines 712-747: the trainer is built on the model and the tokenizer as the
\* expansion left them; the benchmark and the test datasets of the run are
\* what the arguments gave
BuildTrainer ==
    /\ pc = "trainer"
    /\ \E b \in Benchmarks, l \in RunDatasetLists :
          /\ benchmark' = b
          /\ test_datasets_d' = l
    /\ pc' = "evaluate"
    /\ UNCHANGED <<test_dataset_name, condition_list, report, files>>
    /\ UNCHANGED scoreVars
    /\ UNCHANGED vocabVars

\* lines 748-759: trainer.evaluate calls compute_metrics
Evaluate ==
    /\ pc = "evaluate"
    /\ \E do_eval \in BOOLEAN :
          IF do_eval /\ benchmark # "COGS"
              THEN \E r \in TestResults :
                     LET acc == sequence_accuracy(
                                    r.body,
                                    IF ignore_pad_token_for_loss
                                        THEN ReplaceIgnore(r.label_ids, pad_token_id)
                                        ELSE r.label_ids,
                                    pad_token_id)
                     IN  /\ raw_predictions' = WithSOS(r.body, pad_token_id)
                         /\ raw_labels' = r.label_ids
                         /\ caller' = "compute_metrics"
                         /\ accuracy_per_sequence' = acc
                         /\ exact_matches' = ExactMatches(acc)
                         /\ pc' = IF acc.status = "ok" THEN "predict" ELSE "failed"
              ELSE /\ pc' = "predict"
                   /\ UNCHANGED <<raw_predictions, raw_labels, caller,
                                  accuracy_per_sequence, exact_matches>>
    /\ UNCHANGED <<pad_token_id, ignore_pad_token_for_loss>>
    /\ UNCHANGED aggVars
    /\ UNCHANGED vocabVars

\* the report by condition is left out: it belongs to the dataset 'gen',
\* which is none of RunDatasetLists
NextRun ==
    \/ Next
    \/ BuildTrainer
    \/ Evaluate
    \/ Predict
    \/ ScorePredictions
    \/ ReportOverall
    \/ NoReport
    \/ WriteGenerations
    \/ PredictDone

SpecRun == InitRun /\ [][NextRun]_vars

----------------------------------------------------------------------------
(* Properties of the whole run *)

\* the positions of main() behind the vocabulary expansion (line 483)
AfterExpansion ==
    {"trainer", "evaluate", "predict", "score", "scored", "reported", "done", "failed"}

\* a step taken behind the expansion stays behind it and keeps the
\* vocabulary, the number of embedding rows and the pad id
StaysExpanded ==
    pc \in AfterExpansion =>
        /\ pc' \in AfterExpansion
        /\ tokenizer' = tokenizer
        /\ Len(emb') = Len(emb)
        /\ pad_token_id' = pad_token_id

\* C18: sequence_accuracy is only called once the expansion is over and
\* the trainer built; from the end of the expansion on no step goes back
\* into it, and none changes the vocabulary, the number of embedding rows
\* or the pad id, so all scoring calls see the same of them.
C18_ExpansionOnceBeforeScoring ==
    /\ [](caller # "none" => pc \in AfterExpansion \ {"trainer"})
    /\ [][StaysExpanded]_vars

\* a token was added, and compute_metrics and the predict loop have both
\* scored behind it
C18_Witness ==
    /\ add_new_vocab
    /\ Len(tokenizer) = base_size + 1
    /\ Len(emb) = Len(tokenizer)
    /\ pc = "done"
    /\ caller = "predict"
    /\ accuracy_per_sequence.status = "ok"
    /\ files[GenerationsFile("iid_test")].by = "iid_test"

\* the expansion is asked for with a model that is none of T5, BART, LED
UnsupportedExpansion ==
    /\ add_new_vocab
    /\ ~(HasT5(model_name) \/ HasBart(model_name) \/ HasLed(model_name))

\* C21: an expansion asked for with a model that is none of T5, BART and
\* LED never gets behind line 442, where it ends with a ValueError: the
\* embedding matrix stays as it was loaded, no row is initialised, and no
\* trainer, evaluation, scoring or prediction step is reached.
C21_UnsupportedModelEndsInValueError ==
    UnsupportedExpansion =>
        /\ pc \in {"add_vocab", "read_file", "add_tokens", "resize", "failed"}
        /\ pc = "failed" => error = "ValueError"
        /\ error \in {"none", "ValueError"}
        /\ emb = emb0
        /\ old_rows = {}
        /\ rand_indices = <<>>
        /\ caller = "none"
        /\ files = NoFiles

\* the run of an unsupported model has ended with the ValueError, the token
\* of the file registered and the matrix as loaded
C21_Witness ==
    /\ UnsupportedExpansion
    /\ pc = "failed"
    /\ error = "ValueError"
    /\ Len(tokenizer) = base_size + 1
    /\ emb = emb0

----------------------------------------------------------------------------
(* Properties of the predict loop *)

\* the iteration of the k-th dataset has scored it and is past its report
PastReport(k) ==
    \/ k < Position
    \/ k = Position /\ pc \in {"reported", "predict", "done"}

GroupedMode(name) == benchmark = "COGS" /\ name = "gen"

\* the accuracy report of the dataset `name` is on disk
HasAccuracyReport(name) ==
    \E f \in {AccuraciesFile(name), AccuracyFile} :
        /\ files[f].by = name
        /\ IF GroupedMode(name)
               THEN DOMAIN files[f].content = LabelsOf(condition_list) \cup {"overall"}
               ELSE DOMAIN files[f].content = {"num", "den"}

\* C16: every test dataset that has been scored has its accuracy report on
\* disk, a mapping with one entry per condition and "overall" for the COGS
\* dataset 'gen', a single number otherwise, and keeps it while the other
\* datasets of the run are reported.
C16_OneReportPerDataset ==
    \A k \in 1..Len(test_datasets_d) :
        PastReport(k) => HasAccuracyReport(test_datasets_d[k])

\* the predict loop ended with an error in the iteration of a dataset
FailedInLoop == pc = "failed" /\ test_dataset_name # "none"

\* C17: when the scoring or the aggregation of a dataset raises, nothing of
\* that dataset is on disk: no metrics file, no accuracy report, no
\* generation report.
C17_NothingPersistedOnError ==
    FailedInLoop => \A f \in FileNames : files[f].by # test_dataset_name

----------------------------------------------------------------------------
(* Properties of the vocabulary expansion *)

\* the tokens have been registered
Registered == add_new_vocab /\ pc \notin {"add_vocab", "read_file", "add_tokens"}
\* the expansion ran to its end without an error
Expanded == add_new_vocab /\ pc = "trainer"
NumNew == Len(new_vocabs)

NoTokenTwice(ws) == \A j, k \in 1..Len(ws) : j # k => ws[j] # ws[k]
NewTo(vocab, ws) == \A k \in 1..Len(ws) : \A i \in 1..Len(vocab) : vocab[i] # ws[k]

C5_PreExistingRowsUnchanged ==
    Expanded =>
        \A i \in 1..base_size : i <= Len(emb) /\ emb[i] = emb0[i]

\* C6: after an expansion that completed, in every supported branch, the
\* matrix has as many rows as the tokenizer has tokens.
C6_RowsEqualVocabularySize ==
    Expanded => Len(emb) = Len(tokenizer)

C8_AvgOverExactlyOldRows ==
    (Expanded /\ vocab_init_method = "avg") =>
        /\ old_rows = 0..(base_size - 1)
        /\ \A k \in 1..NumNew :
              \E i \in (base_size + 1)..Len(emb) : emb[i] = <<"draw", k>>

\* the expansion was asked for and main() is past it, or has raised in it
ExpansionEnded == add_new_vocab /\ pc \in {"trainer", "failed"}

\* C13: with an initialisation policy other than default, avg and
\* existing_word the expansion ends with an error instead of completing.
C13_UnknownPolicyFails ==
    (ExpansionEnded /\ vocab_init_method \notin {"default", "avg", "existing_word"})
        => (pc = "failed" /\ error # "none")

\* C14: when the expansion is asked for and the list of new tokens is empty,
\* the expansion ends with an error under every policy, and the embedding
\* matrix is as it was loaded.
C14_EmptyTokenListFails ==
    (ExpansionEnded /\ Len(vocab_file) = 0) =>
        /\ pc = "failed"
        /\ error # "none"
        /\ emb = emb0

\* C15: no step of the expansion that shrinks the embedding matrix removes
\* the row of an id the vocabulary holds: a resize that would do so raises
\* and leaves the matrix alone.
C15_NoReferencedRowRemoved ==
    [][Len(emb') < Len(emb) => Len(tokenizer) <= Len(emb')]_vars

\* the file has been read
FileRead == add_new_vocab /\ pc \notin {"add_vocab", "read_file"}

\* a line without the newline that ends it
WithoutNewline(line) ==
    IF line # <<>> /\ line[Len(line)] = "\n"
        THEN SubSeq(line, 1, Len(line) - 1)
        ELSE line

\* the id (counted from 1) of the token w of the vocabulary
IdOf(vocab, w) == CHOOSE i \in 1..Len(vocab) : vocab[i] = w
\* the first line that gives the token w
FirstLine(w) ==
    CHOOSE k \in 1..NumNew :
        new_vocabs[k] = w /\ \A j \in 1..(k - 1) : new_vocabs[j] # w
IsNew(w) == \A i \in 1..base_size : tokenizer[i] # w

\* C20: the file gives one token per line, in file order: the line without
\* its newline, behind one space iff prepend_space_to_vocab; empty and
\* repeated lines are kept; the tokens are registered in that order.
C20_OneTokenPerLineInOrder ==
    FileRead =>
        /\ Len(new_vocabs) = Len(vocab_file)
        /\ \A k \in 1..Len(vocab_file) :
              new_vocabs[k] =
                  IF prepend_space_to_vocab
                      THEN <<" ">> \o WithoutNewline(vocab_file[k])
                      ELSE WithoutNewline(vocab_file[k])
        /\ Registered =>
              /\ \A k \in 1..NumNew : \E i \in 1..Len(tokenizer) : tokenizer[i] = new_vocabs[k]
              /\ \A j, k \in 1..NumNew :
                    ( /\ IsNew(new_vocabs[j]) /\ IsNew(new_vocabs[k])
                      /\ FirstLine(new_vocabs[j]) < FirstLine(new_vocabs[k]) )
                    => IdOf(tokenizer, new_vocabs[j]) < IdOf(tokenizer, new_vocabs[k])

\* an empty line and a word, each behind a space, registered in file order
C20_Witness ==
    /\ Registered
    /\ prepend_space_to_vocab
    /\ vocab_file = << <<"\n">>, <<"x">> >>
    /\ new_vocabs = << <<" ">>, <<" ", "x">> >>
    /\ tokenizer[base_size + 1] = <<" ">>
    /\ tokenizer[base_size + 2] = <<" ", "x">>

====
